---------------------------- MODULE Spec2Model ----------------------------
(***************************************************************************)
(* Festibal push backend: the four variants of the notification relay      *)
(* (src/server.js and src/unnamed/part_000) as one state machine.          *)
(*                                                                         *)
(*   variant "full"       src/server.js 1-358   (PostgreSQL tokens + news) *)
(*   variant "single"     src/server.js 360-438 (single send only)         *)
(*   variant "memory"     part_000 1-139        (in-memory Set of tokens)  *)
(*   variant "persistent" part_000 141-338      (PostgreSQL tokens)        *)
(*                                                                         *)
(* A request handler is cut at its await points.  Each turn of a handler   *)
(* (its synchronous prefix, and each continuation after an await) is one   *)
(* step; the store running a statement handed to pool.query is a step of   *)
(* its own, between the turn that hands it over and the turn that receives *)
(* its result.  fetch is the wrapper around import('node-fetch'): until    *)
(* that module is loaded a call of it waits for the import, and the        *)
(* request is POSTed in the turn in which the import resolves; afterwards  *)
(* it is POSTed in the turn that calls fetch.  NOW() in a statement is the *)
(* start time of its transaction, which lies between the call of          *)
(* pool.query and the statement taking effect.  Requests interleave the    *)
(* way the event loop lets them.                                           *)
(***************************************************************************)
EXTENDS Integers, Sequences, FiniteSets, Bags, TLC

\* ------------------------------------------------------------------ bounds
\* Requests accepted in one behaviour.
MaxRequests == 3
\* Requests that may be in flight (awaiting I/O) at the same time.
MaxInFlight == 2

\* ------------------------------------------------------- JavaScript values
\* A JSON value of a request body: a type tag and its text.  A number keeps
\* its decimal literal in str.
Undefined == [type |-> "undefined", str |-> ""]
Null == [type |-> "null", str |-> ""]
Str(s) == [type |-> "string", str |-> s]
Num(s) == [type |-> "number", str |-> s]

\* ToBoolean, as `!x` and `x || y` apply it.
Truthy(v) ==
  CASE v.type = "string" -> v.str # ""
    [] v.type = "number" -> v.str \notin {"0", "NaN"}
    [] OTHER -> FALSE

\* typeof v === 'string'
IsString(v) == v.type = "string"

\* x || y
OrElse(x, y) == IF Truthy(x) THEN x ELSE y

\* COALESCE(a, b) of SQL
Coalesce(a, b) == IF a # Null THEN a ELSE b

\* ------------------------------------------------------------ input domains
Variants == {"full", "single", "memory", "persistent"}
PgVariants == {"full", "persistent"}

InvalidTokens == {Undefined, Str(""), Num("42")}
PlatformInputs == {Undefined, Str(""), Str("ios"), Str("android")}
\* The bodies of POST /register-token: one token with every platform, a
\* second token, and the tokens that fail the check.
RegisterInputs ==
  ({Str("tokA")} \X PlatformInputs) \cup {<<Str("tokB"), Str("ios")>>}
    \cup (InvalidTokens \X {Undefined})
\* The bodies of POST /broadcast, { title, body }: a complete one, and one
\* with each field missing.
BroadcastInputs ==
  {<<Str("T1"), Str("B1")>>, <<Str(""), Str("B1")>>, <<Str("T1"), Undefined>>}
\* The bodies of POST /send-notification, { to, title, body }.
SendInputs ==
  {<<Str("tokA"), Str("T1"), Str("B1")>>, <<Undefined, Str("T1"), Str("B1")>>,
   <<Str("tokA"), Str(""), Str("B1")>>, <<Str("tokA"), Str("T1"), Undefined>>}
\* The bodies of POST /news, { title, message }.
NewsInputs ==
  {<<Str("T1"), Str("M1")>>, <<Str("T2"), Str("M1")>>, <<Undefined, Str("M1")>>,
   <<Str("T1"), Undefined>>, <<Str("T1"), Str("")>>}

NoInput ==
  [token |-> Undefined, platform |-> Undefined, title |-> Undefined,
   body |-> Undefined, message |-> Undefined, to |-> Undefined]

\* --------------------------------------------------- push-delivery replies
\* A ticket of the upstream reply; kind "null" is the JSON value null.
Ticket(status, message, details) ==
  [kind |-> "object", status |-> status, message |-> message, details |-> details]
TicketOk == Ticket(Str("ok"), Undefined, Undefined)
TicketError == Ticket(Str("error"), Str("DeviceNotRegistered"), Str("detail"))
TicketErrorBare == Ticket(Str("error"), Undefined, Undefined)
TicketNull == [kind |-> "null", status |-> Undefined, message |-> Undefined,
               details |-> Undefined]

\* The parsed JSON body of the upstream reply: null, or an object whose
\* field data is absent, something that is no array, or an array of tickets.
Payload(kind, data, items) == [kind |-> kind, data |-> data, items |-> items]
PayloadNull == Payload("null", "absent", <<>>)
PayloadNoData == Payload("object", "absent", <<>>)
PayloadDataOther == Payload("object", "other", <<>>)
PayloadTickets(items) == Payload("object", "array", items)

\* What fetch and response.json() give: a transport failure (they throw) or
\* a payload.
Upstream(transport, json) == [transport |-> transport, json |-> json]
UpstreamReplies ==
  {Upstream("fail", PayloadNull)} \cup
  {Upstream("ok", p) :
     p \in {PayloadNull, PayloadNoData, PayloadDataOther,
            PayloadTickets(<<>>), PayloadTickets(<<TicketOk>>),
            PayloadTickets(<<TicketError>>), PayloadTickets(<<TicketErrorBare>>),
            PayloadTickets(<<TicketNull>>),
            PayloadTickets(<<TicketOk, TicketError>>)}}

\* ---------------------------------------------------------------- responses
NoTicket == TicketNull
NoResponse ==
  [status |-> 0, ok |-> FALSE, error |-> Undefined, warning |-> "",
   tickets |-> <<>>, ticket |-> NoTicket, details |-> Undefined,
   expo |-> PayloadNull, hasExpo |-> FALSE, rows |-> <<>>]

\* res.status(s).json({ ok: false, error })
ErrorResponse(status, error) ==
  [NoResponse EXCEPT !.status = status, !.error = Str(error)]

\* res.json({ ok: true })
OkResponse == [NoResponse EXCEPT !.status = 200, !.ok = TRUE]

VARIABLES
  variant,      \* which of the four programs runs
  databaseUrl,  \* process.env.DATABASE_URL is set
  expo_tokens,  \* table expo_tokens: a set of rows
  tokenSeq,     \* the sequence behind expo_tokens.id
  news_items,   \* table news_items: a set of rows
  newsSeq,      \* the sequence behind news_items.id
  tokens,       \* the in-memory Set, in insertion order
  now,          \* the store's clock: a time later than every time at which
                \* a statement was handed over or a transaction started
  reqs,         \* the requests in flight (awaiting I/O): a bag of requests
  started,      \* requests accepted so far
  outbound,     \* the batches POSTed to the push-delivery API, in order
  nodeFetch,    \* import('node-fetch') has resolved: the module is loaded
  importing,    \* the requests whose call of fetch awaits that import, in
                \* the order of their calls
  posted,       \* the POST /news requests answered 201, in order of the
                \* answers: the body of each, the time its INSERT was handed
                \* to pool.query and the item it was answered with
  orphans,      \* the news items stored by a POST /news that was answered 500
  registered,   \* the valid tokens whose registration wrote to the store
  last          \* the step just taken: request, response, what it sent

vars ==
  <<variant, databaseUrl, expo_tokens, tokenSeq, news_items, newsSeq, tokens,
    now, reqs, started, outbound, nodeFetch, importing, posted, orphans,
    registered, last>>


\* ------------------------------------------------------------------- store
\* A plain INSERT into a table without the UNIQUE constraint on token.
UpsertTokenInsertOnly(rows, token, platform, id, t) ==
  rows \cup {[id |-> id, token |-> token, platform |-> platform,
              created_at |-> t, last_seen_at |-> t]}

\* The upsert with platform = $2 in place of COALESCE($2, expo_tokens.platform).
UpsertTokenOverwrite(rows, token, platform, id, t) ==
  IF \E r \in rows : r.token = token
    THEN {IF r.token = token
            THEN [r EXCEPT !.last_seen_at = t, !.platform = platform]
            ELSE r : r \in rows}
    ELSE rows \cup {[id |-> id, token |-> token, platform |-> platform,
                     created_at |-> t, last_seen_at |-> t]}

\* INSERT INTO expo_tokens (token, platform) VALUES ($1, $2)
\* ON CONFLICT (token) DO UPDATE SET last_seen_at = NOW(),
\*   platform = COALESCE($2, expo_tokens.platform)
\* id and t are the value drawn from the id sequence and NOW(), the time at
\* which the statement's transaction started.
UpsertToken(rows, token, platform, id, t) ==
  IF \E r \in rows : r.token = token
    THEN {IF r.token = token
            THEN [r EXCEPT !.last_seen_at = t,
                           !.platform = Coalesce(platform, r.platform)]
            ELSE r : r \in rows}
    ELSE rows \cup {[id |-> id, token |-> token, platform |-> platform,
                     created_at |-> t, last_seen_at |-> t]}

\* INSERT INTO news_items (title, message) VALUES ($1, $2) RETURNING ...
NewsRow(title, message, id, t) ==
  [id |-> id, title |-> title, message |-> message, created_at |-> t]

\* created_at AS "createdAt": the row as the listing and the creation
\* endpoint return it.
NewsJson(r) ==
  [id |-> r.id, title |-> Str(r.title), message |-> Str(r.message),
   createdAt |-> r.created_at]

\* The sequences that list every element of S once.
Orderings(S) ==
  {f \in [1..Cardinality(S) -> S] : \A i, j \in DOMAIN f : i # j => f[i] # f[j]}

\* ORDER BY created_at ASC.
OldestFirst(f) ==
  \A i, j \in DOMAIN f : i < j => f[i].created_at <= f[j].created_at

\* ORDER BY created_at DESC: rows of equal created_at come in any order.
NewestFirst(f) ==
  \A i, j \in DOMAIN f : i < j => f[i].created_at >= f[j].created_at

\* Set.prototype.add on the in-memory set, which keeps insertion order.
SetAdd(set, token) ==
  IF \E i \in DOMAIN set : set[i] = token THEN set ELSE Append(set, token)

\* -------------------------------------------------------------- validation
\* The check without typeof token !== 'string'.
InvalidTokenUntyped(token) == ~Truthy(token)

\* !token || typeof token !== 'string'
InvalidToken(token) == ~Truthy(token) \/ ~IsString(token)

\* !title || !body
InvalidBroadcast(title, body) == ~Truthy(title) \/ ~Truthy(body)

\* The check without !body.
InvalidSendNoBody(to, title, body) == ~Truthy(to) \/ ~Truthy(title)

\* !to || !title || !body
InvalidSend(to, title, body) == ~Truthy(to) \/ ~Truthy(title) \/ ~Truthy(body)

\* The check without !message.
InvalidNewsTitleOnly(title, message) == ~Truthy(title)

\* !title || !message
InvalidNews(title, message) == ~Truthy(title) \/ ~Truthy(message)

\* ---------------------------------------------------------------- messages
Message(to, title, body) == [to |-> to, title |-> title, body |-> body]

\* The map that stops one short of the end of the list.
BroadcastMessagesShort(list, title, body) ==
  [i \in 1..(Len(list) - 1) |-> Message(Str(list[i]), title, body)]

\* rows.map((row) => ({ to: row.token, title, body })) and
\* Array.from(tokens).map((to) => ({ to, title, body }))
BroadcastMessages(list, title, body) ==
  [i \in DOMAIN list |-> Message(Str(list[i]), title, body)]

\* const messages = [{ to, title, body }]
SendMessages(to, title, body) == <<Message(to, title, body)>>

\* ----------------------------------------------------------- upstream reply
PushFailed == ErrorResponse(500, "Push failed (server error)")

\* data.data of a payload that is null throws a TypeError.
ReadsDataThrows(up) == up.json.kind = "null"

\* !Array.isArray(data.data) || data.data.length === 0
NoTickets(up) == up.json.data # "array" \/ Len(up.json.items) = 0

InvalidExpoResponse(up) ==
  [ErrorResponse(500, "Ongeldige Expo push response")
     EXCEPT !.expo = up.json, !.hasExpo = TRUE]

\* sendToExpo, from the reply on: what the request is answered with.
SendToExpoResponse(up) ==
  IF up.transport = "fail" \/ ReadsDataThrows(up) THEN PushFailed
  ELSE IF NoTickets(up) THEN InvalidExpoResponse(up)
  ELSE [OkResponse EXCEPT !.tickets = up.json.items]

\* The single-send handler without its look at the first ticket.
SingleSendResponseUnchecked(up) ==
  IF up.transport = "fail" \/ ReadsDataThrows(up) THEN PushFailed
  ELSE IF NoTickets(up) THEN InvalidExpoResponse(up)
  ELSE [OkResponse EXCEPT !.ticket = up.json.items[1]]

\* POST /send-notification of the single-send variant, from the reply on.
SingleSendResponse(up) ==
  IF up.transport = "fail" \/ ReadsDataThrows(up) THEN PushFailed
  ELSE IF NoTickets(up) THEN InvalidExpoResponse(up)
  ELSE LET ticket == up.json.items[1] IN
    IF ticket.kind = "null" THEN PushFailed
    ELSE IF ticket.status = Str("ok")
      THEN [OkResponse EXCEPT !.ticket = ticket]
      ELSE [NoResponse EXCEPT
              !.status = 400,
              !.error = OrElse(ticket.message, Str("Expo push error")),
              !.details = OrElse(ticket.details, Null)]


\* ----------------------------------------------------------------- requests
\* A handler suspended at an await.  pc tells what it awaits: a statement it
\* handed to pool.query that the store has not run yet (Pending), the result
\* of a statement the store has run (Executed), the import of node-fetch
\* inside its call of fetch ("fetch"), or the reply of the push-delivery API
\* ("reply").  rows: what its statement returned; messages: the batch it
\* handed to fetch; issued: the time at which it handed a statement that
\* reads NOW() to pool.query (0: it handed none).
Request(pc, op, in, rows, messages) ==
  [pc |-> pc, op |-> op, in |-> in, rows |-> rows, messages |-> messages,
   issued |-> 0]
Issued(r, t) == [r EXCEPT !.issued = t]

\* NOW() in a statement the store runs: the time at which the statement's
\* transaction started, which is no earlier than the time the statement was
\* handed to pool.query and may be later than every time read so far.
\* Statements whose transactions overlap may take effect in the other order
\* than their transactions started, or start at the same time.
Now(r) == r.issued .. now

\* The clock after a statement read t: later than every time read so far.
Later(t) == IF t = now THEN now + 1 ELSE now
Pending == {"upsert", "count", "select", "list", "insert"}
Executed == {"upserted", "counted", "selected", "listed", "inserted"}
InFlight == BagToSet(reqs)
Await(r) == reqs (+) SetToBag({r})
Resume(r) == reqs (-) SetToBag({r})
CanAccept == started < MaxRequests
CanAwait == BagCardinality(reqs) + Len(importing) < MaxInFlight

\* No upstream reply was read in this step.
NoUpstream == Upstream("none", PayloadNull)

\* The step just taken.  step: "arrive" (the synchronous prefix of a
\* handler), the statement the store ran ("upsert", "count", "select",
\* "list", "insert"), "resume" (the handler's turn after a result),
\* "reject" (its catch after pool.query rejected), "fetch" (the callbacks of
\* import('node-fetch'), which belong to the requests in importing) or
\* "reply" (its turn after the upstream reply).  sent: the batches POSTed so
\* far by the request, or by the callbacks that ran in the step;
\* done: the request was answered in this step, with res; queried: the step
\* handed a statement to pool.query; read: the rows the statement returned
\* (store step) or handed to the handler (resume); issued: the time at which
\* the request handed its statement that reads NOW() to pool.query (0: it
\* handed none).
Event(op, step, in, res, sent, done) ==
  [op |-> op, step |-> step, in |-> in, res |-> res, sent |-> sent, done |-> done,
   up |-> NoUpstream, queried |-> FALSE, read |-> <<>>, issued |-> 0]
Queried(e) == [e EXCEPT !.queried = TRUE]
At(e, r) == [e EXCEPT !.issued = r.issued]
Respond(op, in, res) == Event(op, "arrive", in, res, <<>>, TRUE)

\* The handlers without the check of DATABASE_URL.
StoreUnconfiguredUnchecked == FALSE

\* !process.env.DATABASE_URL
StoreUnconfigured == ~databaseUrl

\* The handler without the check for an empty list of tokens.
NoRecipientsUnchecked(list) == FALSE

\* !rows || rows.length === 0, and tokens.size === 0
NoRecipients(list) == Len(list) = 0

\* The error each handler's catch answers with when pool.query rejects.
StoreError(op) ==
  CASE op = "register-token" -> "DB error bij opslaan token"
    [] op = "broadcast" -> "DB error bij ophalen tokens"
    [] op = "get-news" -> "DB error bij ophalen nieuws"
    [] op = "post-news" -> "DB error bij opslaan nieuws"

Init ==
  /\ variant \in Variants
  /\ databaseUrl \in (IF variant \in PgVariants THEN BOOLEAN ELSE {FALSE})
  /\ expo_tokens = {}
  /\ tokenSeq = 1
  /\ news_items = {}
  /\ newsSeq = 1
  /\ tokens = <<>>
  /\ now = 1
  /\ reqs = EmptyBag
  /\ started = 0
  /\ outbound = <<>>
  /\ nodeFetch = FALSE
  /\ importing = <<>>
  /\ posted = <<>>
  /\ orphans = {}
  /\ registered = {}
  /\ last = Event("start", "start", NoInput, NoResponse, <<>>, FALSE)

\* GET /
Health ==
  /\ CanAccept
  /\ started' = started + 1
  /\ last' = Respond("health", NoInput, OkResponse)
  /\ UNCHANGED <<variant, databaseUrl, expo_tokens, tokenSeq, news_items, newsSeq,
                 tokens, now, reqs, outbound, nodeFetch, importing,
                 posted, orphans, registered>>

\* POST /register-token, up to its first await: the checks and the call of
\* pool.query with the upsert (the whole handler in the in-memory variant).
RegisterToken(token, platform) ==
  LET in == [NoInput EXCEPT !.token = token, !.platform = platform] IN
  /\ variant \in PgVariants \cup {"memory"}
  /\ CanAccept
  /\ started' = started + 1
  /\ UNCHANGED <<variant, databaseUrl, expo_tokens, tokenSeq, news_items, newsSeq,
                 outbound, nodeFetch, importing, posted, orphans>>
  /\ IF InvalidToken(token) THEN
       /\ last' = Respond("register-token", in, ErrorResponse(400, "Ongeldig token"))
       /\ UNCHANGED <<tokens, reqs, registered, now>>
     ELSE IF variant = "memory" THEN
       /\ tokens' = SetAdd(tokens, token.str)
       /\ registered' = registered \cup {token.str}
       /\ last' = Respond("register-token", in, OkResponse)
       /\ UNCHANGED <<reqs, now>>
     ELSE IF StoreUnconfigured THEN
       /\ last' = Respond("register-token", in,
                          [OkResponse EXCEPT !.warning =
                             "Token niet persistent opgeslagen (geen DATABASE_URL)."])
       /\ UNCHANGED <<tokens, reqs, registered, now>>
     ELSE
       /\ CanAwait
       /\ reqs' = Await(Issued(Request("upsert", "register-token", in, <<>>, <<>>),
                               now))
       /\ now' = now + 1
       /\ last' = [Queried(Event("register-token", "arrive", in, NoResponse,
                                 <<>>, FALSE))
                     EXCEPT !.issued = now]
       /\ UNCHANGED <<tokens, registered>>

\* The store runs the upsert of a registration.
StoreUpsert(r) ==
  /\ r.pc = "upsert"
  /\ \E t \in Now(r) :
       /\ expo_tokens' = UpsertToken(expo_tokens, r.in.token.str,
                                     OrElse(r.in.platform, Null), tokenSeq, t)
       /\ now' = Later(t)
  /\ tokenSeq' = tokenSeq + 1
  /\ registered' = registered \cup {r.in.token.str}
  /\ reqs' = Resume(r) (+) SetToBag({[r EXCEPT !.pc = "upserted"]})
  /\ last' = At(Event(r.op, "upsert", r.in, NoResponse, <<>>, FALSE), r)
  /\ UNCHANGED <<variant, databaseUrl, news_items, newsSeq, tokens, started,
                 outbound, nodeFetch, importing,
                 posted, orphans>>

\* POST /register-token, after the upsert: the call of pool.query with
\* SELECT COUNT(*).
RegisterCount(r) ==
  /\ r.pc = "upserted"
  /\ reqs' = Resume(r) (+) SetToBag({[r EXCEPT !.pc = "count"]})
  /\ last' = Queried(Event(r.op, "resume", r.in, NoResponse, <<>>, FALSE))
  /\ UNCHANGED <<variant, databaseUrl, expo_tokens, tokenSeq, news_items, newsSeq,
                 tokens, now, started, outbound, nodeFetch, importing,
                 posted, orphans, registered>>

\* The store runs SELECT COUNT(*) FROM expo_tokens.
StoreCount(r) ==
  /\ r.pc = "count"
  /\ reqs' = Resume(r) (+) SetToBag({[r EXCEPT !.pc = "counted"]})
  /\ last' = Event(r.op, "count", r.in, NoResponse, <<>>, FALSE)
  /\ UNCHANGED <<variant, databaseUrl, expo_tokens, tokenSeq, news_items, newsSeq,
                 tokens, now, started, outbound, nodeFetch, importing,
                 posted, orphans, registered>>

\* POST /register-token, after the count: the answer.
RegisterDone(r) ==
  /\ r.pc = "counted"
  /\ reqs' = Resume(r)
  /\ last' = Event(r.op, "resume", r.in, OkResponse, <<>>, TRUE)
  /\ UNCHANGED <<variant, databaseUrl, expo_tokens, tokenSeq, news_items, newsSeq,
                 tokens, now, started, outbound, nodeFetch, importing,
                 posted, orphans, registered>>

\* pool.query rejects, whether the store never ran the statement (Pending)
\* or ran it and the result was lost (Executed); the handler's catch answers.
Reject(r) ==
  /\ r.pc \in Pending \cup Executed
  /\ reqs' = Resume(r)
  /\ orphans' = IF r.pc = "inserted" THEN orphans \cup {r.rows[1]} ELSE orphans
  /\ last' = Event(r.op, "reject", r.in, ErrorResponse(500, StoreError(r.op)),
                   <<>>, TRUE)
  /\ UNCHANGED <<variant, databaseUrl, expo_tokens, tokenSeq, news_items, newsSeq,
                 tokens, now, started, outbound, nodeFetch, importing,
                 posted, registered>>

\* fetch(url, options), the wrapper: import('node-fetch').then(({ default:
\* fetch }) => fetch(url, options)), called by the request r whose other
\* requests in flight are rest, in the step e.  With node-fetch loaded the
\* callback runs before the turn ends and POSTs the batch; otherwise the
\* request waits for the import.
Fetch(rest, r, e) ==
  IF nodeFetch THEN
    /\ outbound' = Append(outbound, r.messages)
    /\ reqs' = rest (+) SetToBag({[r EXCEPT !.pc = "reply"]})
    /\ last' = [e EXCEPT !.sent = <<r.messages>>]
    /\ UNCHANGED <<nodeFetch, importing>>
  ELSE
    /\ importing' = Append(importing, [r EXCEPT !.pc = "fetch"])
    /\ reqs' = rest
    /\ last' = e
    /\ UNCHANGED <<nodeFetch, outbound>>

\* The batches the requests of q handed to fetch.
Batches(q) == [i \in DOMAIN q |-> q[i].messages]

\* The requests of q, awaiting the reply of the push-delivery API, added to
\* the requests in flight.
AwaitAll(bag, q) ==
  LET awaiting == [i \in DOMAIN q |-> [q[i] EXCEPT !.pc = "reply"]] IN
  bag (+) [r \in {awaiting[i] : i \in DOMAIN q} |->
             Cardinality({i \in DOMAIN q : awaiting[i] = r})]

\* import('node-fetch') resolves: the callbacks of the calls of fetch that
\* waited for it run, in the order of the calls, and each POSTs its batch.
Imported ==
  /\ ~nodeFetch
  /\ importing # <<>>
  /\ nodeFetch' = TRUE
  /\ outbound' = outbound \o Batches(importing)
  /\ reqs' = AwaitAll(reqs, importing)
  /\ importing' = <<>>
  /\ last' = Event("fetch", "fetch", NoInput, NoResponse, Batches(importing), FALSE)
  /\ UNCHANGED <<variant, databaseUrl, expo_tokens, tokenSeq, news_items, newsSeq,
                 tokens, now, started, posted, orphans, registered>>

\* POST /broadcast, up to its first await: the checks and the call of
\* pool.query with SELECT token; in the in-memory variant the checks, the
\* batch built from the Set and the call of fetch in sendToExpo.
Broadcast(title, body) ==
  LET in == [NoInput EXCEPT !.title = title, !.body = body]
      messages == BroadcastMessages(tokens, title, body)
  IN
  /\ variant \in PgVariants \cup {"memory"}
  /\ CanAccept
  /\ started' = started + 1
  /\ UNCHANGED <<variant, databaseUrl, expo_tokens, tokenSeq, news_items, newsSeq,
                 tokens, now, posted, orphans, registered>>
  /\ IF InvalidBroadcast(title, body) THEN
       /\ last' = Respond("broadcast", in,
                          ErrorResponse(400, "title en body zijn verplicht"))
       /\ UNCHANGED <<reqs, outbound, nodeFetch, importing>>
     ELSE IF variant = "memory" THEN
       IF NoRecipients(tokens) THEN
         /\ last' = Respond("broadcast", in,
                      ErrorResponse(400, "Geen geregistreerde tokens om naar te sturen"))
         /\ UNCHANGED <<reqs, outbound, nodeFetch, importing>>
       ELSE
         /\ CanAwait
         /\ Fetch(reqs, Request("fetch", "broadcast", in, <<>>, messages),
                  Event("broadcast", "arrive", in, NoResponse, <<>>, FALSE))
     ELSE IF StoreUnconfigured THEN
       /\ last' = Respond("broadcast", in,
                    ErrorResponse(500, "DATABASE_URL ontbreekt, geen tokens beschikbaar."))
       /\ UNCHANGED <<reqs, outbound, nodeFetch, importing>>
     ELSE
       /\ CanAwait
       /\ reqs' = Await(Request("select", "broadcast", in, <<>>, <<>>))
       /\ last' = Queried(Event("broadcast", "arrive", in, NoResponse, <<>>, FALSE))
       /\ UNCHANGED <<outbound, nodeFetch, importing>>

\* The store runs SELECT token FROM expo_tokens: the rows, in any order.
StoreSelectTokens(r) ==
  /\ r.pc = "select"
  /\ \E rows \in Orderings(expo_tokens) :
       LET list == [i \in DOMAIN rows |-> [token |-> rows[i].token]] IN
       /\ reqs' = Resume(r) (+) SetToBag({[r EXCEPT !.pc = "selected", !.rows = list]})
       /\ last' = [Event(r.op, "select", r.in, NoResponse, <<>>, FALSE)
                     EXCEPT !.read = list]
  /\ UNCHANGED <<variant, databaseUrl, expo_tokens, tokenSeq, news_items, newsSeq,
                 tokens, now, started, outbound, nodeFetch, importing,
                 posted, orphans, registered>>

\* POST /broadcast, after the rows: the no-recipients check, the batch and
\* the call of fetch in sendToExpo.
BroadcastSend(r) ==
  LET list == [i \in DOMAIN r.rows |-> r.rows[i].token]
      messages == BroadcastMessages(list, r.in.title, r.in.body)
  IN
  /\ r.pc = "selected"
  /\ IF NoRecipients(r.rows) THEN
       /\ reqs' = Resume(r)
       /\ last' = [Event(r.op, "resume", r.in,
                     ErrorResponse(400, "Geen geregistreerde tokens om naar te sturen"),
                     <<>>, TRUE)
                     EXCEPT !.read = r.rows]
       /\ UNCHANGED <<outbound, nodeFetch, importing>>
     ELSE
       Fetch(Resume(r), [r EXCEPT !.pc = "fetch", !.messages = messages],
             [Event(r.op, "resume", r.in, NoResponse, <<>>, FALSE)
                EXCEPT !.read = r.rows])
  /\ UNCHANGED <<variant, databaseUrl, expo_tokens, tokenSeq, news_items, newsSeq,
                 tokens, now, started, posted, orphans, registered>>

\* POST /send-notification, up to its first await: the check, the one
\* message and the call of fetch.
SendNotification(to, title, body) ==
  LET in == [NoInput EXCEPT !.to = to, !.title = title, !.body = body]
      messages == SendMessages(to, title, body)
  IN
  /\ CanAccept
  /\ started' = started + 1
  /\ UNCHANGED <<variant, databaseUrl, expo_tokens, tokenSeq, news_items, newsSeq,
                 tokens, now, posted, orphans, registered>>
  /\ IF InvalidSend(to, title, body) THEN
       /\ last' = Respond("send-notification", in,
                          ErrorResponse(400, "to, title en body zijn verplicht"))
       /\ UNCHANGED <<reqs, outbound, nodeFetch, importing>>
     ELSE
       /\ CanAwait
       /\ Fetch(reqs, Request("fetch", "send-notification", in, <<>>, messages),
                Event("send-notification", "arrive", in, NoResponse, <<>>, FALSE))

\* The upstream reply arrives (or fetch / response.json() throws) and the
\* request is answered.
Reply(r, up) ==
  /\ r.pc = "reply"
  /\ reqs' = Resume(r)
  /\ last' = [Event(r.op, "reply", r.in,
                    IF variant = "single" THEN SingleSendResponse(up)
                                          ELSE SendToExpoResponse(up),
                    <<r.messages>>, TRUE)
                EXCEPT !.up = up]
  /\ UNCHANGED <<variant, databaseUrl, expo_tokens, tokenSeq, news_items, newsSeq,
                 tokens, now, started, outbound, nodeFetch, importing,
                 posted, orphans, registered>>

\* GET /news, up to its await: the check of DATABASE_URL and the call of
\* pool.query with the listing.
GetNews ==
  /\ variant = "full"
  /\ CanAccept
  /\ started' = started + 1
  /\ UNCHANGED <<variant, databaseUrl, expo_tokens, tokenSeq, news_items, newsSeq,
                 tokens, now, outbound, nodeFetch, importing,
                 posted, orphans, registered>>
  /\ IF StoreUnconfigured THEN
       /\ last' = Respond("get-news", NoInput,
                    ErrorResponse(500,
                      "DATABASE_URL ontbreekt, geen databaseverbinding voor nieuws."))
       /\ UNCHANGED reqs
     ELSE
       /\ CanAwait
       /\ reqs' = Await(Request("list", "get-news", NoInput, <<>>, <<>>))
       /\ last' = Queried(Event("get-news", "arrive", NoInput, NoResponse, <<>>, FALSE))

\* The store runs SELECT ... FROM news_items ORDER BY created_at DESC.
StoreSelectNews(r) ==
  /\ r.pc = "list"
  /\ \E rows \in Orderings(news_items) :
       LET list == [i \in DOMAIN rows |-> NewsJson(rows[i])] IN
       /\ NewestFirst(rows)
       /\ reqs' = Resume(r) (+) SetToBag({[r EXCEPT !.pc = "listed", !.rows = list]})
       /\ last' = [Event(r.op, "list", r.in, NoResponse, <<>>, FALSE)
                     EXCEPT !.read = list]
  /\ UNCHANGED <<variant, databaseUrl, expo_tokens, tokenSeq, news_items, newsSeq,
                 tokens, now, started, outbound, nodeFetch, importing,
                 posted, orphans, registered>>

\* GET /news, after the rows: res.json(rows).
GetNewsDone(r) ==
  /\ r.pc = "listed"
  /\ reqs' = Resume(r)
  /\ last' = [Event(r.op, "resume", r.in,
                    [NoResponse EXCEPT !.status = 200, !.rows = r.rows], <<>>, TRUE)
                EXCEPT !.read = r.rows]
  /\ UNCHANGED <<variant, databaseUrl, expo_tokens, tokenSeq, news_items, newsSeq,
                 tokens, now, started, outbound, nodeFetch, importing,
                 posted, orphans, registered>>

\* POST /news, up to its await: the check of DATABASE_URL, then of the body,
\* and the call of pool.query with the INSERT.
PostNews(title, message) ==
  LET in == [NoInput EXCEPT !.title = title, !.message = message] IN
  /\ variant = "full"
  /\ CanAccept
  /\ started' = started + 1
  /\ UNCHANGED <<variant, databaseUrl, expo_tokens, tokenSeq, news_items, newsSeq,
                 tokens, outbound, nodeFetch, importing, posted, orphans,
                 registered>>
  /\ IF StoreUnconfigured THEN
       /\ last' = Respond("post-news", in,
                    ErrorResponse(500,
                      "DATABASE_URL ontbreekt, nieuws kan niet opgeslagen worden."))
       /\ UNCHANGED <<reqs, now>>
     ELSE IF InvalidNews(title, message) THEN
       /\ last' = Respond("post-news", in,
                          ErrorResponse(400, "title en message zijn verplicht"))
       /\ UNCHANGED <<reqs, now>>
     ELSE
       /\ CanAwait
       /\ reqs' = Await(Issued(Request("insert", "post-news", in, <<>>, <<>>), now))
       /\ now' = now + 1
       /\ last' = [Queried(Event("post-news", "arrive", in, NoResponse, <<>>, FALSE))
                     EXCEPT !.issued = now]

\* The store runs INSERT INTO news_items ... RETURNING the row.
StoreInsertNews(r) ==
  /\ r.pc = "insert"
  /\ \E t \in Now(r) :
       LET created == NewsRow(r.in.title.str, r.in.message.str, newsSeq, t)
           list == <<NewsJson(created)>>
       IN
       /\ news_items' = news_items \cup {created}
       /\ now' = Later(t)
       /\ reqs' = Resume(r) (+) SetToBag({[r EXCEPT !.pc = "inserted", !.rows = list]})
       /\ last' = At([Event(r.op, "insert", r.in, NoResponse, <<>>, FALSE)
                        EXCEPT !.read = list], r)
  /\ newsSeq' = newsSeq + 1
  /\ UNCHANGED <<variant, databaseUrl, expo_tokens, tokenSeq, tokens, started,
                 outbound, nodeFetch, importing, posted, orphans, registered>>

\* POST /news, after the row: res.status(201).json(created).
PostNewsDone(r) ==
  /\ r.pc = "inserted"
  /\ reqs' = Resume(r)
  /\ posted' = Append(posted, [title |-> r.in.title, message |-> r.in.message,
                               item |-> r.rows[1], issued |-> r.issued])
  /\ last' = At([Event(r.op, "resume", r.in,
                       [NoResponse EXCEPT !.status = 201, !.rows = r.rows], <<>>, TRUE)
                   EXCEPT !.read = r.rows], r)
  /\ UNCHANGED <<variant, databaseUrl, expo_tokens, tokenSeq, news_items, newsSeq,
                 tokens, now, started, outbound, nodeFetch, importing,
                 orphans, registered>>

Next ==
  \/ Health
  \/ \E in \in RegisterInputs : RegisterToken(in[1], in[2])
  \/ \E r \in InFlight : StoreUpsert(r)
  \/ \E r \in InFlight : RegisterCount(r)
  \/ \E r \in InFlight : StoreCount(r)
  \/ \E r \in InFlight : RegisterDone(r)
  \/ \E r \in InFlight : Reject(r)
  \/ \E in \in BroadcastInputs : Broadcast(in[1], in[2])
  \/ \E r \in InFlight : StoreSelectTokens(r)
  \/ \E r \in InFlight : BroadcastSend(r)
  \/ \E in \in SendInputs : SendNotification(in[1], in[2], in[3])
  \/ Imported
  \/ \E r \in InFlight, up \in UpstreamReplies : Reply(r, up)
  \/ GetNews
  \/ \E r \in InFlight : StoreSelectNews(r)
  \/ \E r \in InFlight : GetNewsDone(r)
  \/ \E in \in NewsInputs : PostNews(in[1], in[2])
  \/ \E r \in InFlight : StoreInsertNews(r)
  \/ \E r \in InFlight : PostNewsDone(r)

Spec == Init /\ [][Next]_vars

\* ------------------------------------------------------------------ claims
\* What the claims call a value that is supplied and non-empty.
Supplied(v) == v.type = "string" /\ v.str # ""
RowsOf(rows, token) == {r \in rows : r.token = token}
NoRecipientsError == Str("Geen geregistreerde tokens om naar te sturen")
NoneRegistered == expo_tokens = {} /\ tokens = <<>>

\* The step taken is the first step of a request to op.
Arrives(op) == last'.op = op /\ last'.step = "arrive"
\* The step taken is the given step of a request to op.
Takes(op, step) == last'.op = op /\ last'.step = step
\* The body of the request that took the step has a title and a body.
ValidTitleAndBody == Supplied(last'.in.title) /\ Supplied(last'.in.body)

\* C1 as stated: with the store configured, the upsert of a token that is
\* already registered leaves exactly one row for that token (the same row:
\* same id and created_at), whose platform is the one now supplied if it is
\* non-empty and the prior one if it is absent or empty, and whose
\* last_seen_at is later than before; every other row is untouched.
C1_Original ==
  [][Takes("register-token", "upsert") =>
       LET token == last'.in.token.str
           platform == last'.in.platform
       IN /\ Cardinality(RowsOf(expo_tokens', token)) = 1
          /\ \A r \in expo_tokens : r.token # token => r \in expo_tokens'
          /\ \A old \in RowsOf(expo_tokens, token) :
               \A new \in RowsOf(expo_tokens', token) :
                 /\ new.id = old.id
                 /\ new.created_at = old.created_at
                 /\ new.last_seen_at > old.last_seen_at
                 /\ new.platform = IF Supplied(platform) THEN platform
                                                         ELSE old.platform]_vars

\* C1 amended: the same, except that last_seen_at is set to the NOW() of the
\* upsert, the time its transaction started, which is no earlier than the
\* time the registration handed the upsert to the store.  It is later than
\* before when the registration was issued after the time the row held (as
\* is every registration issued after the earlier upsert ran); for two
\* registrations in flight together it may be equal to or earlier than
\* before.
C1_Reregistration ==
  [][Takes("register-token", "upsert") =>
       LET token == last'.in.token.str
           platform == last'.in.platform
       IN /\ Cardinality(RowsOf(expo_tokens', token)) = 1
          /\ \A r \in expo_tokens : r.token # token => r \in expo_tokens'
          /\ \A new \in RowsOf(expo_tokens', token) :
               new.last_seen_at >= last'.issued
          /\ \A old \in RowsOf(expo_tokens, token) :
               \A new \in RowsOf(expo_tokens', token) :
                 /\ new.id = old.id
                 /\ new.created_at = old.created_at
                 /\ old.last_seen_at < last'.issued
                      => new.last_seen_at > old.last_seen_at
                 /\ new.platform = IF Supplied(platform) THEN platform
                                                         ELSE old.platform]_vars

\* C1 witness: of two registrations, a token was registered with platform
\* "ios" and then, by a registration issued after the time its row held,
\* with platform "android": its one row was updated, says "android" and has
\* a later last_seen_at.
C1_Witness ==
  /\ started = 2
  /\ last.op = "register-token" /\ last.step = "upsert"
  /\ last.in.platform = Str("android")
  /\ \E r \in InFlight :
       /\ r.op = "register-token" /\ r.pc \in {"upserted", "count", "counted"}
       /\ r.in.token = last.in.token
       /\ r.in.platform = Str("ios")
       /\ r.issued < last.issued
  /\ Cardinality(expo_tokens) = 1
  /\ \E r \in expo_tokens :
       /\ r.token = last.in.token.str
       /\ r.created_at < last.issued
       /\ r.last_seen_at > r.created_at
       /\ r.platform = Str("android")

\* C2 as stated: a POST /broadcast with valid title and body issued when no
\* token is registered is answered 400 with the no-recipients error, in every
\* variant and whatever the store configuration, and sends nothing.  (Tokens
\* are never removed, so a broadcast answered while none is registered was
\* issued while none was registered.)
C2_Original ==
  (/\ last.op = "broadcast" /\ last.done
   /\ Supplied(last.in.title) /\ Supplied(last.in.body)
   /\ NoneRegistered)
  => /\ last.res.status = 400
     /\ last.res.error = NoRecipientsError
     /\ last.sent = <<>>

\* C2 amended: a valid broadcast whose read of the registered tokens finds
\* none is answered 400 with the no-recipients error and sends nothing.  The
\* in-memory variant reads the Set at arrival.  The persistent variants, when
\* the store is configured, suspend at arrival and read with a SELECT that
\* runs later and returns no row exactly when the table is then empty; if
\* pool.query rejects, the answer is the 500 store error.  With the store
\* unconfigured the answer is the 500 configuration error, at arrival.  None
\* of these steps calls fetch: no batch is POSTed and none waits to be.
C2_NoRecipients ==
  [][/\ (Arrives("broadcast") /\ ValidTitleAndBody /\ variant = "memory"
         /\ tokens = <<>>)
          => /\ last'.done
             /\ last'.res.status = 400
             /\ last'.res.error = NoRecipientsError
             /\ last'.sent = <<>>
             /\ UNCHANGED <<outbound, importing, reqs>>
     /\ (Arrives("broadcast") /\ ValidTitleAndBody /\ variant \in PgVariants)
          => IF databaseUrl
               THEN /\ ~last'.done
                    /\ last'.queried
                    /\ UNCHANGED <<outbound, importing>>
                    /\ reqs' = reqs (+) SetToBag({
                         Request("select", "broadcast", last'.in, <<>>, <<>>)})
               ELSE /\ last'.done
                    /\ last'.res.status = 500
                    /\ last'.res.error =
                         Str("DATABASE_URL ontbreekt, geen tokens beschikbaar.")
                    /\ last'.sent = <<>>
                    /\ UNCHANGED <<outbound, importing, reqs>>
     /\ Takes("broadcast", "select")
          => /\ (last'.read = <<>>) <=> (expo_tokens = {})
             /\ UNCHANGED <<outbound, importing>>
     /\ (Takes("broadcast", "resume") /\ last'.read = <<>>)
          => /\ last'.done
             /\ last'.res.status = 400
             /\ last'.res.error = NoRecipientsError
             /\ last'.sent = <<>>
             /\ UNCHANGED <<outbound, importing>>
     /\ Takes("broadcast", "reject")
          => /\ last'.done
             /\ last'.res.status = 500
             /\ last'.res.error = Str("DB error bij ophalen tokens")
             /\ last'.sent = <<>>
             /\ UNCHANGED <<outbound, importing>>]_vars

\* C2 witness: a valid broadcast whose SELECT found the table of a
\* configured store empty was answered with the no-recipients error.
C2_Witness ==
  /\ last.op = "broadcast" /\ last.step = "resume" /\ last.done
  /\ Supplied(last.in.title) /\ Supplied(last.in.body)
  /\ variant = "full" /\ databaseUrl
  /\ last.read = <<>>
  /\ last.res.status = 400 /\ last.res.error = NoRecipientsError

\* C3: a POST /register-token whose token is absent, empty or not a string
\* is answered 400 "Ongeldig token" at arrival in every variant and store
\* configuration, without a statement handed to the store and with the
\* table and the set unchanged.
C3_InvalidToken ==
  [][(Arrives("register-token") /\ ~Supplied(last'.in.token))
     => /\ last'.done
        /\ last'.res.status = 400
        /\ ~last'.res.ok
        /\ last'.res.error = Str("Ongeldig token")
        /\ ~last'.queried
        /\ UNCHANGED <<expo_tokens, tokenSeq, tokens, reqs>>]_vars

\* C3 witness: a registration with the number 42 as token was refused while
\* a token was registered.
C3_Witness ==
  /\ last.op = "register-token" /\ last.step = "arrive" /\ last.done
  /\ last.in.token = Num("42")
  /\ last.res.status = 400
  /\ ~NoneRegistered

\* The one message of the send-notification request that took the step.
OneMessage == <<Message(last'.in.to, last'.in.title, last'.in.body)>>

\* The step taken is the one in which import('node-fetch') resolves.
Imports == last'.op = "fetch" /\ last'.step = "fetch"

\* In that step every request that waited for the import POSTs the batch it
\* handed to fetch, once, in the order of the calls of fetch, and goes on to
\* await the reply; no other batch is POSTed.
PostsEachOnce ==
  /\ Len(last'.sent) = Len(importing)
  /\ \A i \in DOMAIN importing : last'.sent[i] = importing[i].messages
  /\ outbound' = outbound \o last'.sent
  /\ importing' = <<>>
  /\ BagCardinality(reqs') = BagCardinality(reqs) + Len(importing)
  /\ \A i \in DOMAIN importing :
       BagIn([importing[i] EXCEPT !.pc = "reply"], reqs')

\* C4: a POST /send-notification with to, title or body missing is answered
\* 400 at once and makes no outbound call; with all three present it builds
\* the one message {to, title, body} and hands it to fetch in the turn it
\* arrives in, which POSTs it in one call: in that turn when node-fetch is
\* loaded, and otherwise in the turn in which the import of node-fetch
\* resolves.  It makes no other call before it is answered.
C4_SendNotification ==
  [][/\ Arrives("send-notification") =>
          IF Supplied(last'.in.to) /\ ValidTitleAndBody
            THEN /\ ~last'.done
                 /\ IF nodeFetch
                      THEN /\ last'.sent = <<OneMessage>>
                           /\ outbound' = Append(outbound, OneMessage)
                           /\ reqs' = reqs (+) SetToBag({
                                Request("reply", "send-notification", last'.in,
                                        <<>>, OneMessage)})
                           /\ importing' = importing
                      ELSE /\ last'.sent = <<>>
                           /\ outbound' = outbound
                           /\ reqs' = reqs
                           /\ importing' = Append(importing,
                                Request("fetch", "send-notification", last'.in,
                                        <<>>, OneMessage))
            ELSE /\ last'.done
                 /\ last'.res.status = 400
                 /\ last'.res.error = Str("to, title en body zijn verplicht")
                 /\ last'.sent = <<>>
                 /\ UNCHANGED <<outbound, importing, reqs>>
     /\ Imports =>
          /\ PostsEachOnce
          /\ \A i \in DOMAIN importing :
               importing[i].op = "send-notification" =>
                 last'.sent[i] = <<Message(importing[i].in.to, importing[i].in.title,
                                           importing[i].in.body)>>
     /\ last'.op = "send-notification" => last'.step \in {"arrive", "reply"}
     /\ Takes("send-notification", "reply") =>
          /\ last'.done
          /\ last'.sent = <<OneMessage>>
          /\ UNCHANGED <<outbound, importing>>]_vars

\* C4 witness: a complete send-notification, the first call of fetch of the
\* process, was answered after its one outbound call, the only call made so
\* far.
C4_Witness ==
  /\ last.op = "send-notification" /\ last.step = "reply" /\ last.done
  /\ Len(last.sent) = 1 /\ Len(last.sent[1]) = 1
  /\ outbound = last.sent
  /\ nodeFetch /\ importing = <<>>

\* The upstream reply holds a non-empty array of tickets.
HasTickets(up) == up.json.data = "array" /\ Len(up.json.items) > 0

\* C5 as stated: whenever the upstream reply was received and parsed,
\* sendToExpo answers 500 "Ongeldige Expo push response" with the raw payload
\* if the array of tickets is absent or empty, and ok:true with the array
\* unchanged otherwise.
C5_Original ==
  (last.step = "reply" /\ variant # "single" /\ last.up.transport = "ok")
  => IF HasTickets(last.up)
       THEN /\ last.res.status = 200 /\ last.res.ok
            /\ last.res.tickets = last.up.json.items
       ELSE /\ last.res.status = 500
            /\ last.res.error = Str("Ongeldige Expo push response")
            /\ last.res.hasExpo
            /\ last.res.expo = last.up.json

\* The first ticket of a reply that has tickets.
FirstTicket(up) == up.json.items[1]
SingleSendReplied ==
  /\ last.op = "send-notification" /\ last.step = "reply"
  /\ last.up.transport = "ok" /\ HasTickets(last.up)
  /\ FirstTicket(last.up).kind = "object"
\* The request was answered 400 with the first ticket's message (or, when it
\* has none, "Expo push error") as the error.
Rejected ==
  /\ last.res.status = 400 /\ ~last.res.ok
  /\ last.res.error = OrElse(FirstTicket(last.up).message, Str("Expo push error"))

\* C6 as stated: a POST /send-notification whose upstream reply has a first
\* ticket of status other than "ok" is answered 400 with that ticket's
\* message as the error, and one of status "ok" is answered ok:true with
\* that ticket (alone, or first among the tickets returned).
C6_Original ==
  SingleSendReplied =>
    IF FirstTicket(last.up).status = Str("ok")
      THEN /\ last.res.status = 200 /\ last.res.ok
           /\ \/ last.res.ticket = FirstTicket(last.up)
              \/ /\ Len(last.res.tickets) > 0
                 /\ last.res.tickets[1] = FirstTicket(last.up)
      ELSE Rejected

\* C6 amended: that holds of the single-send variant only, which answers a
\* first ticket of status "ok" with ok:true and that ticket; in the variants
\* whose /send-notification goes through sendToExpo the same reply is
\* answered 200 ok:true with the whole ticket array, whatever the status of
\* its tickets.
C6_SingleSend ==
  SingleSendReplied =>
    IF variant = "single"
      THEN IF FirstTicket(last.up).status = Str("ok")
             THEN /\ last.res.status = 200 /\ last.res.ok
                  /\ last.res.ticket = FirstTicket(last.up)
             ELSE Rejected
      ELSE /\ last.res.status = 200 /\ last.res.ok
           /\ last.res.tickets = last.up.json.items
           /\ last.res.error = Undefined

\* C6 witness: the single-send variant answered 400 "DeviceNotRegistered".
C6_Witness ==
  /\ variant = "single" /\ SingleSendReplied
  /\ FirstTicket(last.up) = TicketError
  /\ last.res.status = 400
  /\ last.res.error = Str("DeviceNotRegistered")

\* Every POST /news whose INSERT the store has run has been answered 201:
\* none still awaits its result, and none was answered 500 after its row
\* was stored.
OnlySuccessfulPosts ==
  /\ \A r \in InFlight : r.pc # "inserted"
  /\ orphans = {}
PostedItems == {posted[p].item : p \in DOMAIN posted}

\* C7 as stated: with the store configured, when every POST /news that
\* reached the table was answered 201, the listing the store runs for a GET
\* /news holds exactly one item per such POST, namely the item that POST was
\* answered with, which carries the posted title and message; the ids and
\* timestamps of the items are pairwise distinct and the items come newest
\* first; the item an INSERT creates is newer than the item of every POST
\* answered before, so that the item of a later POST precedes that of an
\* earlier one.
C7_Original ==
  [][/\ (Takes("get-news", "list") /\ OnlySuccessfulPosts) =>
          LET rows == last'.read IN
          /\ Len(rows) = Len(posted)
          /\ {rows[i] : i \in DOMAIN rows} = PostedItems
          /\ \A p \in DOMAIN posted :
               /\ posted[p].item.title = posted[p].title
               /\ posted[p].item.message = posted[p].message
          /\ \A i, j \in DOMAIN rows :
               i < j => /\ rows[i].id # rows[j].id
                        /\ rows[i].createdAt > rows[j].createdAt
     /\ Takes("post-news", "insert") =>
          LET item == last'.read[1] IN
          \A p \in DOMAIN posted :
            /\ item.createdAt > posted[p].item.createdAt
            /\ item.id # posted[p].item.id]_vars

\* The place of an item in a listing that holds it once.
Position(rows, item) == CHOOSE i \in DOMAIN rows : rows[i] = item

\* The POST /news answered as posted[q] handed its INSERT to the store after
\* the time at which the item of posted[p] was created (as does every POST
\* issued after the INSERT of posted[p] ran).
IssuedAfter(q, p) == posted[p].item.createdAt < posted[q].issued

\* C7 amended: with the store configured, when every POST /news that
\* reached the table was answered 201, the listing the store runs for a GET
\* /news holds exactly one item per such POST, namely the item that POST was
\* answered with, which carries the posted title and message; the ids are
\* pairwise distinct and the items come in descending order of createdAt.
\* The item of a POST issued after the item of another was created has a
\* later createdAt and precedes it in the listing; two POSTs in flight
\* together may get equal timestamps, or timestamps in the other order than
\* their INSERTs ran.  GET /news answers 200 with the listing it read.  The
\* createdAt of an item is the NOW() of its INSERT, no earlier than the time
\* the POST handed the INSERT to the store; no step updates or deletes a
\* stored item.
C7_NewsNewestFirst ==
  [][/\ (Takes("get-news", "list") /\ OnlySuccessfulPosts) =>
          LET rows == last'.read IN
          /\ Len(rows) = Len(posted)
          /\ {rows[i] : i \in DOMAIN rows} = PostedItems
          /\ \A p \in DOMAIN posted :
               /\ posted[p].item.title = posted[p].title
               /\ posted[p].item.message = posted[p].message
          /\ \A i, j \in DOMAIN rows :
               i < j => /\ rows[i].id # rows[j].id
                        /\ rows[i].createdAt >= rows[j].createdAt
          /\ \A p, q \in DOMAIN posted :
               IssuedAfter(q, p) =>
                 /\ posted[q].item.createdAt > posted[p].item.createdAt
                 /\ Position(rows, posted[q].item) < Position(rows, posted[p].item)
     /\ Takes("get-news", "resume") =>
          /\ last'.done
          /\ last'.res.status = 200
          /\ last'.res.rows = last'.read
          /\ reqs = reqs' (+) SetToBag({
               Request("listed", "get-news", NoInput, last'.read, <<>>)})
     /\ Takes("post-news", "insert") =>
          LET item == last'.read[1] IN
          /\ item.title = last'.in.title
          /\ item.message = last'.in.message
          /\ item.createdAt >= last'.issued
          /\ \A r \in news_items :
               /\ item.id # r.id
               /\ r.created_at < last'.issued => item.createdAt > r.created_at
     /\ Takes("post-news", "resume") =>
          /\ last'.done
          /\ last'.res.status = 201
          /\ last'.res.rows = last'.read
          /\ posted' = Append(posted, [title |-> last'.in.title,
                                       message |-> last'.in.message,
                                       item |-> last'.read[1],
                                       issued |-> last'.issued])
          /\ reqs = reqs' (+) SetToBag({
               Issued(Request("inserted", "post-news", last'.in, last'.read, <<>>),
                      last'.issued)})
     /\ news_items \subseteq news_items']_vars

\* C7 witness: after two POST /news answered 201 and no other, the second
\* issued after the item of the first was created, a GET /news was answered
\* with their two items, the second one first.
C7_Witness ==
  /\ last.op = "get-news" /\ last.step = "resume" /\ last.res.status = 200
  /\ OnlySuccessfulPosts
  /\ Len(posted) = 2
  /\ IssuedAfter(2, 1)
  /\ Len(last.res.rows) = 2
  /\ last.res.rows[1] = posted[2].item
  /\ last.res.rows[2] = posted[1].item
  /\ last.res.rows[1].title = Str("T2")
  /\ last.res.rows[2].title = Str("T1")
  /\ last.res.rows[1].createdAt > last.res.rows[2].createdAt

ValidationErrorNews == Str("title en message zijn verplicht")
ConfigurationErrorNews ==
  Str("DATABASE_URL ontbreekt, nieuws kan niet opgeslagen worden.")

\* C8 as stated: a POST /news without title or message is answered 400
\* whatever the store configuration, and the 500 configuration error is given
\* only to a valid body.
C8_Original ==
  (last.op = "post-news" /\ last.step = "arrive")
  => /\ (~Supplied(last.in.title) \/ ~Supplied(last.in.message))
          => (last.res.status = 400 /\ last.res.error = ValidationErrorNews)
     /\ last.res.error = ConfigurationErrorNews
          => (Supplied(last.in.title) /\ Supplied(last.in.message))

\* C8 amended: with the store configured, a POST /news without title or
\* message is answered 400 at arrival and hands no statement to the store;
\* with the store unconfigured every POST /news, valid or not, is answered
\* at arrival with the 500 configuration error and hands no statement to the
\* store, because DATABASE_URL is checked first.
C8_NewsValidation ==
  [][Arrives("post-news") =>
       IF databaseUrl
         THEN (~Supplied(last'.in.title) \/ ~Supplied(last'.in.message))
              => /\ last'.done
                 /\ last'.res.status = 400
                 /\ last'.res.error = ValidationErrorNews
                 /\ ~last'.queried
                 /\ UNCHANGED <<news_items, newsSeq, posted, reqs>>
         ELSE /\ last'.done
              /\ last'.res.status = 500
              /\ last'.res.error = ConfigurationErrorNews
              /\ ~last'.queried
              /\ UNCHANGED <<news_items, newsSeq, posted, reqs>>]_vars

\* C8 witness: a configured store that holds a news item refused a POST
\* /news that has a title and no message.
C8_Witness ==
  /\ last.op = "post-news" /\ databaseUrl
  /\ Supplied(last.in.title) /\ ~Supplied(last.in.message)
  /\ last.res.status = 400
  /\ news_items # {}

\* C9: in a persistent variant without DATABASE_URL, a POST /register-token
\* with a valid token is answered ok:true with a warning, hands no statement
\* to the store and changes neither the table nor the set; a POST /broadcast
\* with valid title and body is answered with the 500 configuration error,
\* hands no statement to the store and does not call fetch.
C9_DegradedMode ==
  [][(variant \in PgVariants /\ ~databaseUrl) =>
       /\ (Arrives("register-token") /\ Supplied(last'.in.token)) =>
            /\ last'.done
            /\ last'.res.status = 200 /\ last'.res.ok
            /\ last'.res.warning # ""
            /\ ~last'.queried
            /\ expo_tokens' = {}
            /\ UNCHANGED <<expo_tokens, tokenSeq, tokens, reqs, outbound, importing>>
       /\ (Arrives("broadcast") /\ ValidTitleAndBody) =>
            /\ last'.done
            /\ last'.res.status = 500
            /\ last'.res.error = Str("DATABASE_URL ontbreekt, geen tokens beschikbaar.")
            /\ ~last'.queried
            /\ last'.sent = <<>>
            /\ UNCHANGED <<expo_tokens, tokens, reqs, outbound, importing>>]_vars

\* C9 witness: after an earlier request, a valid broadcast met the
\* unconfigured store of the full variant.
C9_Witness ==
  /\ variant = "full" /\ ~databaseUrl
  /\ started >= 2
  /\ last.op = "broadcast" /\ last.step = "arrive"
  /\ last.res.status = 500
  /\ last.res.error = Str("DATABASE_URL ontbreekt, geen tokens beschikbaar.")

\* The tokens a broadcast reads: the rows of the table, or the set.
RegisteredTokens ==
  IF variant = "memory" THEN {tokens[i] : i \in DOMAIN tokens}
                        ELSE {r.token : r \in expo_tokens}

\* batch holds one message per token of toks, each with title and body.
OnePerToken(batch, toks, title, body) ==
  /\ Len(batch) = Cardinality(toks)
  /\ {batch[i].to : i \in DOMAIN batch} = {Str(t) : t \in toks}
  /\ \A i \in DOMAIN batch : batch[i].title = title /\ batch[i].body = body

\* The tokens of the rows the step read or was handed.
TokensRead == {last'.read[i].token : i \in DOMAIN last'.read}

\* The batch the step handed to fetch: POSTed in the step, or waiting for
\* the import of node-fetch as the last of the calls.
Batch ==
  IF nodeFetch THEN last'.sent[1] ELSE importing'[Len(importing')].messages

\* The step handed one batch to fetch for a request that was suspended as
\* before (a bag: empty if it just arrived) and now awaits as after: the
\* batch is POSTed in the step when node-fetch is loaded, and otherwise
\* queued behind the calls that wait for the import.
HandsToFetch(before, after) ==
  IF nodeFetch
    THEN /\ Len(last'.sent) = 1
         /\ outbound' = Append(outbound, Batch)
         /\ importing' = importing
         /\ reqs' (+) before = reqs (+) SetToBag({[after EXCEPT !.pc = "reply"]})
    ELSE /\ last'.sent = <<>>
         /\ outbound' = outbound
         /\ importing' = Append(importing, [after EXCEPT !.pc = "fetch"])
         /\ reqs' (+) before = reqs

\* C10: a POST /broadcast with valid title and body reads the registered
\* tokens once (the Set at arrival in the in-memory variant, the table when
\* its SELECT runs in the persistent variants) and gets each token
\* registered at that moment exactly once; when it has read N >= 1 tokens it
\* builds, in that turn, a batch of N messages, one per token read, each
\* with the request's title and body, and hands it to fetch, which POSTs
\* that batch in one outbound call: in the same turn when node-fetch is
\* loaded, otherwise in the turn in which the import of node-fetch resolves,
\* unchanged by what was registered in between.  It makes no other call.  (A
\* token query that is rejected is answered 500 without a call.)
C10_BroadcastBatch ==
  [][/\ (Arrives("broadcast") /\ ValidTitleAndBody /\ variant = "memory"
         /\ tokens # <<>>) =>
          /\ ~last'.done
          /\ OnePerToken(Batch, RegisteredTokens, last'.in.title, last'.in.body)
          /\ HandsToFetch(EmptyBag,
                          Request("fetch", "broadcast", last'.in, <<>>, Batch))
     /\ (Arrives("broadcast") /\ variant # "memory")
          => UNCHANGED <<outbound, importing>>
     /\ Takes("broadcast", "select") =>
          /\ Len(last'.read) = Cardinality(RegisteredTokens)
          /\ TokensRead = RegisteredTokens
          /\ UNCHANGED <<outbound, importing>>
     /\ (Takes("broadcast", "resume") /\ last'.read # <<>>) =>
          /\ ~last'.done
          /\ ValidTitleAndBody
          /\ Len(Batch) = Len(last'.read)
          /\ OnePerToken(Batch, TokensRead, last'.in.title, last'.in.body)
          /\ HandsToFetch(
               SetToBag({Request("selected", "broadcast", last'.in, last'.read,
                                 <<>>)}),
               Request("fetch", "broadcast", last'.in, last'.read, Batch))
     /\ Imports =>
          /\ PostsEachOnce
          /\ \A i \in DOMAIN importing :
               importing[i].op = "broadcast" =>
                 /\ Len(last'.sent[i]) >= 1
                 /\ variant # "memory" =>
                      OnePerToken(last'.sent[i],
                                  {importing[i].rows[j].token :
                                     j \in DOMAIN importing[i].rows},
                                  importing[i].in.title, importing[i].in.body)
     /\ Takes("broadcast", "reject") =>
          /\ last'.done
          /\ last'.res.status = 500
          /\ last'.sent = <<>>
          /\ UNCHANGED <<outbound, importing>>
     /\ Takes("broadcast", "reply") =>
          /\ last'.done
          /\ Len(last'.sent) = 1
          /\ Len(last'.sent[1]) >= 1
          /\ UNCHANGED <<outbound, importing>>]_vars

\* C10 witness: a broadcast of a persistent variant read two tokens and
\* handed a batch of two messages to them to the first call of fetch of the
\* process; the import resolved and the batch was POSTed, the only call made
\* so far.
C10_Witness ==
  /\ variant \in PgVariants
  /\ last.op = "fetch" /\ last.step = "fetch"
  /\ outbound = last.sent
  /\ Len(outbound) = 1
  /\ Len(outbound[1]) = 2
  /\ outbound[1][1].to # outbound[1][2].to
  /\ \E r \in InFlight :
       /\ r.op = "broadcast" /\ r.pc = "reply"
       /\ Len(r.rows) = 2
       /\ r.messages = outbound[1]

\* The tokens held, each as often as the store holds it.
HeldOnce ==
  /\ \A r1, r2 \in expo_tokens : r1.token = r2.token => r1 = r2
  /\ \A i, j \in DOMAIN tokens : tokens[i] = tokens[j] => i = j

\* C11: under every interleaving of requests, with registrations of the same
\* or of different tokens in flight together, the store (table or set) holds
\* at most one record per token; it holds exactly the valid tokens whose
\* registration wrote to it, in every state and so once all requests have
\* completed; a registration answered ok:true without a warning has its
\* token in the store; and no step removes a token from the store: the only
\* step that changes the tokens held is the write of a registration (the
\* upsert, or Set.add at arrival), which adds its token.
C11_ConcurrentRegistration ==
  [][/\ HeldOnce'
     /\ RegisteredTokens' = registered'
     /\ RegisteredTokens \subseteq RegisteredTokens'
     /\ (last'.op = "register-token" /\ last'.done
         /\ last'.res.ok /\ last'.res.warning = "")
          => last'.in.token.str \in RegisteredTokens'
     /\ RegisteredTokens' # RegisteredTokens
          => /\ last'.op = "register-token"
             /\ last'.step = (IF variant = "memory" THEN "arrive" ELSE "upsert")
             /\ Supplied(last'.in.token)
             /\ RegisteredTokens' = RegisteredTokens \cup {last'.in.token.str}]_vars

\* C11 witness: two registrations of the same token, with different
\* platforms, are in flight together, both past their upsert, and the table
\* holds one row for that token.
C11_Witness ==
  /\ BagCardinality(reqs) = 2
  /\ Cardinality(InFlight) = 2
  /\ \A r \in InFlight :
       /\ r.op = "register-token"
       /\ r.in.token = Str("tokA")
       /\ r.pc \in {"upserted", "count", "counted"}
  /\ registered = {"tokA"}
  /\ Cardinality(expo_tokens) = 1

=============================================================================
